---- MODULE Spec2Model ----
(***************************************************************************)
(* Day 12 height-map navigation (src/days/day12/src/main.rs).              *)
(*                                                                         *)
(* The state is that of `main`: the parsed input, the HeightMap, and the   *)
(* locals of the search method that is running (open_list, closed_map,     *)
(* target_pos, path, path_node_pos).  One action is one loop iteration of  *)
(* the source (one line of input, one pop of the open list with the whole  *)
(* neighbour loop and the insertion into the closed map, one step of the   *)
(* path rebuild) or one statement of `main`.                               *)
(*                                                                         *)
(* Positions are the source's zero-based (row, column) pairs; `heights` is *)
(* a sequence of rows, so heights[r][c] of the source is                   *)
(* heights[r + 1][c + 1] here.  A panic of the program (an index out of    *)
(* range, an arithmetic overflow in a checked build) is pc = "panic".      *)
(***************************************************************************)
EXTENDS Integers, Sequences, FiniteSets, TLC

\* ---- bounds of the model ----
\* Grids handed to HeightMap::new directly have at most MaxRows rows, MaxCols
\* columns and MaxCells cells, with elevations in 0..MaxElev.
MaxRows == 2
MaxCols == 4
MaxCells == 4
MaxElev == 3
\* Corridors (one-row grids) on which calculate_shortest_hike_path is run alone
\* have at most HikeLen cells, with elevations in 0..HikeMaxElev.
HikeLen == 5
HikeMaxElev == 3
\* Grids shared by two concurrent queries have at most ThreadRows rows,
\* ThreadCols columns and ThreadCells cells, with elevations in 0..ThreadMaxElev.
ThreadRows == 2
ThreadCols == 2
ThreadCells == 4
ThreadMaxElev == 2
\* Grids on which the two neighbour functions are tabulated have at most AdjRows
\* rows, AdjCols columns and AdjCells cells, with elevations in 0..AdjMaxElev.
AdjRows == 3
AdjCols == 3
AdjCells == 9
AdjMaxElev == 2
\* Text inputs have at most MaxLines lines of at most MaxLineLen characters,
\* at most MaxChars characters in all, drawn from 'S', 'E', the letters
\* 'a' .. 'a' + MaxLetter and the letter of the top elevation, 'z'.
MaxLines == 2
MaxLineLen == 2
MaxChars == 4
MaxLetter == 1

\* ---- program constants ----
CharS == 83
CharE == 69
CharA == 97
ElevE == 25

\* Option::None for a node's parent.
None == <<>>

VARIABLES
    input,          \* the lines of inputs/day12.in, each a sequence of code points
    line_no,        \* parse_input: number of lines consumed (the enumerate index i)
    height_rows,    \* parse_input: rows built so far
    heights,        \* HeightMap.heights
    start,          \* HeightMap.start (parse_input's local until construction)
    end,            \* HeightMap.end   (parse_input's local until construction)
    pc,             \* position in main
    open_list,      \* BinaryHeap<DijkstraNode> of the running search
    closed_map,     \* HashMap<(usize, usize), DijkstraNode> of the running search
    target_pos,     \* calculate_shortest_hike_path: start of the hike path
    path,           \* path being rebuilt
    path_node_pos,  \* cursor of the rebuild loop
    reads,          \* positions at which the last step indexed `heights`
    higher_neighbours,  \* get_higher_neighbours, tabulated: its result by position
    lower_neighbours,   \* get_lower_neighbours, tabulated: its result by position
    p1_shortest_path,
    p1_steps_count,
    p2_shortest_hike_path,
    p2_steps_count,
    hike_call       \* frame of a calculate_shortest_hike_path call on a second thread

vars == <<input, line_no, height_rows, heights, start, end, pc, open_list,
          closed_map, target_pos, path, path_node_pos, reads,
          higher_neighbours, lower_neighbours, p1_shortest_path, p1_steps_count, p2_shortest_hike_path,
          p2_steps_count, hike_call>>

gridVars == <<heights, start, end>>
adjVars == <<higher_neighbours, lower_neighbours>>
parseVars == <<input, line_no, height_rows>>
searchVars == <<open_list, closed_map, target_pos, path, path_node_pos>>
resultVars == <<p1_shortest_path, p1_steps_count, p2_shortest_hike_path,
                p2_steps_count>>

\* ---- the grid ----

\* Whether heights[p.0][p.1] is a valid index expression (no panic).
InBounds(h, p) ==
    /\ p[1] < Len(h)
    /\ p[2] < Len(h[p[1] + 1])

\* self.heights[p.0][p.1]; only evaluated where InBounds holds.
ElevAt(h, p) == h[p[1] + 1][p[2] + 1]

\* u32::saturating_sub
saturating_sub(a, b) == IF a >= b THEN a - b ELSE 0

\* Faulty variant of the south edge test: off by one at the last row.
HasSouth_offbyone(h, p) == p[1] <= Len(h) - 1

\* Faulty variant of the west edge test: column 1 has no west neighbour.
HasWest_skipfirst(h, p) == p[2] > 1

\* The edge tests of the four directions (the same in both neighbour functions).
HasNorth(h, p) == p[1] > 0
HasSouth(h, p) == p[1] < Len(h) - 1
HasWest(h, p) == p[2] > 0
HasEast(h, p) == p[2] < Len(h[1]) - 1

\* Faulty variant of the south neighbour: the column moves too.
SouthOf_diagonal(p) == <<p[1] + 1, p[2] + 1>>

NorthOf(p) == <<p[1] - 1, p[2]>>
SouthOf(p) == <<p[1] + 1, p[2]>>
WestOf(p) == <<p[1], p[2] - 1>>
EastOf(p) == <<p[1], p[2] + 1>>

\* The positions at which a neighbour function indexes `heights`, the position
\* itself first.  Each direction's index is evaluated only when its edge test
\* passed (&& short-circuits), whatever the elevation comparison then says.
NeighbourProbes(h, p) ==
    IF ~InBounds(h, p) THEN {p}
    ELSE {p}
         \cup (IF HasNorth(h, p) THEN {NorthOf(p)} ELSE {})
         \cup (IF HasSouth(h, p) THEN {SouthOf(p)} ELSE {})
         \cup (IF HasWest(h, p) THEN {WestOf(p)} ELSE {})
         \cup (IF HasEast(h, p) THEN {EastOf(p)} ELSE {})

\* Faulty variants of the ascent comparison: no climbing at all; climbing two.
HigherStepOk_noclimb(n_height, pos_height) == n_height <= pos_height
HigherStepOk_two(n_height, pos_height) == n_height <= pos_height + 2

\* The comparison of get_higher_neighbours: the neighbour is at most one higher.
\* (u32 arithmetic; the elevations modelled are far below u32::MAX.)
HigherStepOk(n_height, pos_height) == n_height <= pos_height + 1

\* Faulty variants of the descent comparison: no descent at all; descending two.
LowerStepOk_nodescent(n_height, pos_height) == n_height >= pos_height
\* Faulty variant: > for >=.
LowerStepOk_strict(n_height, pos_height) == n_height > saturating_sub(pos_height, 1)
LowerStepOk_two(n_height, pos_height) == n_height >= saturating_sub(pos_height, 2)

\* The comparison of get_lower_neighbours: the neighbour is at most one lower.
LowerStepOk(n_height, pos_height) == n_height >= saturating_sub(pos_height, 1)

Keep(cond, p) == IF cond THEN <<p>> ELSE <<>>

\* Evaluated only when every probe is in bounds (the caller panics otherwise).
get_higher_neighbours(h, position) ==
    LET pos_height == ElevAt(h, position)
    IN  Keep(HasNorth(h, position)
               /\ HigherStepOk(ElevAt(h, NorthOf(position)), pos_height),
             NorthOf(position))
        \o Keep(HasSouth(h, position)
               /\ HigherStepOk(ElevAt(h, SouthOf(position)), pos_height),
             SouthOf(position))
        \o Keep(HasWest(h, position)
               /\ HigherStepOk(ElevAt(h, WestOf(position)), pos_height),
             WestOf(position))
        \o Keep(HasEast(h, position)
               /\ HigherStepOk(ElevAt(h, EastOf(position)), pos_height),
             EastOf(position))

get_lower_neighbours(h, position) ==
    LET pos_height == ElevAt(h, position)
    IN  Keep(HasNorth(h, position)
               /\ LowerStepOk(ElevAt(h, NorthOf(position)), pos_height),
             NorthOf(position))
        \o Keep(HasSouth(h, position)
               /\ LowerStepOk(ElevAt(h, SouthOf(position)), pos_height),
             SouthOf(position))
        \o Keep(HasWest(h, position)
               /\ LowerStepOk(ElevAt(h, WestOf(position)), pos_height),
             WestOf(position))
        \o Keep(HasEast(h, position)
               /\ LowerStepOk(ElevAt(h, EastOf(position)), pos_height),
             EastOf(position))

\* ---- the search engine ----

\* Faulty variant of the node: the parent link is not recorded.
DijkstraNode_root(position, parent, f) ==
    [position |-> position, parent |-> None, f |-> f]

\* Faulty variant of the node: a pushed node names itself as parent.
DijkstraNode_selfparent(position, parent, f) ==
    [position |-> position,
     parent |-> IF parent = None THEN None ELSE position,
     f |-> f]

DijkstraNode(position, parent, f) ==
    [position |-> position, parent |-> parent, f |-> f]

\* open_list is the set of nodes in the heap.  A node equal to one already in
\* the heap is never pushed: the scan of lines 146-155 skips a neighbour whose
\* position has an entry of cost <= the new cost, and an equal node has an
\* equal cost.  The costs f are whole numbers (0., then + 1. per edge), far
\* below 2^53, so f64 holds them exactly and they are integers here.

\* Faulty variant of the pop: any open node, whatever its f.
PopCandidates_any(open) == open

\* BinaryHeap::pop under `impl Ord` (other.f.total_cmp(&self.f)): a node of least
\* f.  The comparator has no second key, so which of several least nodes comes
\* out is the heap's choice.
PopCandidates(open) == {n \in open : \A o \in open : n.f <= o.f}

\* HashMap::insert: replaces the entry of an existing key.
MapInsert(m, k, v) == [q \in (DOMAIN m) \cup {k} |-> IF q = k THEN v ELSE m[q]]

EmptyMap == [q \in {} |-> None]

MinOf(S) == CHOOSE f \in S : \A g \in S : f <= g

\* Faulty variant of the neighbour loop: closed positions are pushed again.
RECURSIVE PushNeighbours_noclosed(_, _, _, _)
PushNeighbours_noclosed(neighbours, open, node, closed) ==
    IF neighbours = <<>> THEN open
    ELSE LET neighbour_pos == Head(neighbours)
             neighbour_f == node.f + 1
             costs == {o.f : o \in {o \in open : o.position = neighbour_pos}}
             skip == costs # {} /\ MinOf(costs) <= neighbour_f
             neighbour_node == DijkstraNode(neighbour_pos, node.position, neighbour_f)
         IN  PushNeighbours_noclosed(Tail(neighbours),
                                     IF skip THEN open ELSE open \cup {neighbour_node},
                                     node, closed)

\* Faulty variant of the neighbour loop: a position already open is pushed again.
RECURSIVE PushNeighbours_noprune(_, _, _, _)
PushNeighbours_noprune(neighbours, open, node, closed) ==
    IF neighbours = <<>> THEN open
    ELSE LET neighbour_pos == Head(neighbours)
             neighbour_f == node.f + 1
             skip == neighbour_pos \in DOMAIN closed
             neighbour_node == DijkstraNode(neighbour_pos, node.position, neighbour_f)
         IN  PushNeighbours_noprune(Tail(neighbours),
                                    IF skip THEN open ELSE open \cup {neighbour_node},
                                    node, closed)

\* Faulty variant of the neighbour loop: a step costs 2.
RECURSIVE PushNeighbours_twostep(_, _, _, _)
PushNeighbours_twostep(neighbours, open, node, closed) ==
    IF neighbours = <<>> THEN open
    ELSE LET neighbour_pos == Head(neighbours)
             neighbour_f == node.f + 2
             costs == {o.f : o \in {o \in open : o.position = neighbour_pos}}
             skip == \/ neighbour_pos \in DOMAIN closed
                     \/ (costs # {} /\ MinOf(costs) <= neighbour_f)
             neighbour_node == DijkstraNode(neighbour_pos, node.position, neighbour_f)
         IN  PushNeighbours_twostep(Tail(neighbours),
                                    IF skip THEN open ELSE open \cup {neighbour_node},
                                    node, closed)

\* Faulty variant of the neighbour loop: a step costs nothing.
RECURSIVE PushNeighbours_samecost(_, _, _, _)
PushNeighbours_samecost(neighbours, open, node, closed) ==
    IF neighbours = <<>> THEN open
    ELSE LET neighbour_pos == Head(neighbours)
             neighbour_f == node.f
             costs == {o.f : o \in {o \in open : o.position = neighbour_pos}}
             skip == \/ neighbour_pos \in DOMAIN closed
                     \/ (costs # {} /\ MinOf(costs) <= neighbour_f)
             neighbour_node == DijkstraNode(neighbour_pos, node.position, neighbour_f)
         IN  PushNeighbours_samecost(Tail(neighbours),
                                     IF skip THEN open ELSE open \cup {neighbour_node},
                                     node, closed)

\* Faulty variant of the neighbour loop: < for <= in the open-list test.
RECURSIVE PushNeighbours_strictprune(_, _, _, _)
PushNeighbours_strictprune(neighbours, open, node, closed) ==
    IF neighbours = <<>> THEN open
    ELSE LET neighbour_pos == Head(neighbours)
             neighbour_f == node.f + 1
             costs == {o.f : o \in {o \in open : o.position = neighbour_pos}}
             skip == \/ neighbour_pos \in DOMAIN closed
                     \/ (costs # {} /\ MinOf(costs) < neighbour_f)
             neighbour_node == DijkstraNode(neighbour_pos, node.position, neighbour_f)
         IN  PushNeighbours_strictprune(Tail(neighbours),
                                        IF skip THEN open ELSE open \cup {neighbour_node},
                                        node, closed)

\* Faulty variant of the neighbour loop: the scan of the open list leaves out
\* the position filter, so any open node of cost <= the new cost prunes.
RECURSIVE PushNeighbours_nofilter(_, _, _, _)
PushNeighbours_nofilter(neighbours, open, node, closed) ==
    IF neighbours = <<>> THEN open
    ELSE LET neighbour_pos == Head(neighbours)
             neighbour_f == node.f + 1
             costs == {o.f : o \in open}
             skip == \/ neighbour_pos \in DOMAIN closed
                     \/ (costs # {} /\ MinOf(costs) <= neighbour_f)
             neighbour_node == DijkstraNode(neighbour_pos, node.position, neighbour_f)
         IN  PushNeighbours_nofilter(Tail(neighbours),
                                     IF skip THEN open ELSE open \cup {neighbour_node},
                                     node, closed)

\* The body of `for neighbour_pos in ...` applied to each neighbour in turn:
\* the open list after the pushes.
RECURSIVE PushNeighbours(_, _, _, _)
PushNeighbours(neighbours, open, node, closed) ==
    IF neighbours = <<>> THEN open
    ELSE LET neighbour_pos == Head(neighbours)
             neighbour_f == node.f + 1
             costs == {o.f : o \in {o \in open : o.position = neighbour_pos}}
             skip == \/ neighbour_pos \in DOMAIN closed
                     \/ (costs # {} /\ MinOf(costs) <= neighbour_f)
             neighbour_node == DijkstraNode(neighbour_pos, node.position, neighbour_f)
         IN  PushNeighbours(Tail(neighbours),
                            IF skip THEN open ELSE open \cup {neighbour_node},
                            node, closed)

\* path.insert(0, e) of calculate_start_end_path
PathInsertFront(p, e) == <<e>> \o p

\* Faulty variant: the hike path built front-first like the part 1 path.
PathPush_front(p, e) == <<e>> \o p

\* path.push(e) of calculate_shortest_hike_path
PathPush(p, e) == Append(p, e)

\* Faulty variant of the step count: the number of path elements.
StepsOutcomes_len(len) ==
    IF len >= 1 THEN {[panic |-> FALSE, wrapped |-> FALSE, n |-> len]}
    ELSE {[panic |-> TRUE, wrapped |-> FALSE, n |-> 0],
          [panic |-> FALSE, wrapped |-> TRUE, n |-> 0]}

\* `a.len() - 1` on usize: the difference, or on underflow either a panic
\* (overflow checks on, the dev profile) or the wrapped value usize::MAX
\* (overflow checks off, the release profile), written [wrapped |-> TRUE].
StepsOutcomes(len) ==
    IF len >= 1 THEN {[panic |-> FALSE, wrapped |-> FALSE, n |-> len - 1]}
    ELSE {[panic |-> TRUE, wrapped |-> FALSE, n |-> 0],
          [panic |-> FALSE, wrapped |-> TRUE, n |-> 0]}

NoCount == [panic |-> FALSE, wrapped |-> FALSE, n |-> 0]

\* ---- main, part 1: calculate_start_end_path ----

StartEndPathBegin ==
    /\ pc = "main_p1"
    /\ open_list' = {DijkstraNode(start, None, 0)}
    /\ closed_map' = EmptyMap
    /\ pc' = "p1_loop"
    /\ reads' = {}
    /\ UNCHANGED <<adjVars, hike_call>>
    /\ UNCHANGED <<gridVars, parseVars, target_pos, path, path_node_pos, resultVars>>

StartEndPathIter ==
    /\ pc = "p1_loop"
    /\ \E node \in PopCandidates(open_list) :
         LET node_pos == node.position
             probes == NeighbourProbes(heights, node_pos)
         IN  /\ reads' = probes
             /\ IF \E q \in probes : ~InBounds(heights, q)
                THEN /\ pc' = "panic"
                     /\ open_list' = open_list \ {node}
                     /\ UNCHANGED <<closed_map, path, path_node_pos>>
                ELSE /\ open_list' =
                          PushNeighbours(get_higher_neighbours(heights, node_pos),
                                         open_list \ {node}, node, closed_map)
                     /\ closed_map' = MapInsert(closed_map, node_pos, node)
                     /\ IF node_pos = end
                        THEN /\ pc' = "p1_rebuild"
                             /\ path' = <<>>
                             /\ path_node_pos' = end
                        ELSE /\ pc' = "p1_loop"
                             /\ UNCHANGED <<path, path_node_pos>>
    /\ UNCHANGED <<adjVars, hike_call>>
    /\ UNCHANGED <<gridVars, parseVars, target_pos, resultVars>>

StartEndPathExhausted ==
    /\ pc = "p1_loop"
    /\ open_list = {}
    /\ pc' = "p1_rebuild"
    /\ path' = <<>>
    /\ path_node_pos' = end
    /\ reads' = {}
    /\ UNCHANGED <<adjVars, hike_call>>
    /\ UNCHANGED <<gridVars, parseVars, open_list, closed_map, target_pos, resultVars>>

StartEndPathRebuild ==
    /\ pc = "p1_rebuild"
    /\ IF path_node_pos \in DOMAIN closed_map
       THEN /\ reads' = {path_node_pos}
            /\ IF ~InBounds(heights, path_node_pos)
               THEN /\ pc' = "panic"
                    /\ UNCHANGED <<path, path_node_pos, p1_shortest_path>>
               ELSE LET path_node == closed_map[path_node_pos]
                        pos_height == ElevAt(heights, path_node_pos)
                        grown == PathInsertFront(path, <<path_node_pos, pos_height>>)
                    IN  /\ path' = grown
                        /\ IF path_node.parent # None
                           THEN /\ path_node_pos' = path_node.parent
                                /\ pc' = "p1_rebuild"
                                /\ UNCHANGED p1_shortest_path
                           ELSE /\ p1_shortest_path' = grown
                                /\ pc' = "p1_count"
                                /\ UNCHANGED path_node_pos
       ELSE /\ reads' = {}
            /\ p1_shortest_path' = path
            /\ pc' = "p1_count"
            /\ UNCHANGED <<path, path_node_pos>>
    /\ UNCHANGED <<adjVars, hike_call>>
    /\ UNCHANGED <<gridVars, parseVars, open_list, closed_map, target_pos,
                   p1_steps_count, p2_shortest_hike_path, p2_steps_count>>

P1StepsCount ==
    /\ pc = "p1_count"
    /\ \E r \in StepsOutcomes(Len(p1_shortest_path)) :
         /\ p1_steps_count' = r
         /\ pc' = IF r.panic THEN "panic" ELSE "main_p2"
    /\ reads' = {}
    /\ UNCHANGED <<adjVars, hike_call>>
    /\ UNCHANGED <<gridVars, parseVars, searchVars, p1_shortest_path,
                   p2_shortest_hike_path, p2_steps_count>>

\* ---- main, part 2: calculate_shortest_hike_path ----

\* Faulty variant: the reverse search makes its source the grid's start.
ShortestHikePathBegin_reroot ==
    /\ pc = "main_p2"
    /\ open_list' = {DijkstraNode(end, None, 0)}
    /\ closed_map' = EmptyMap
    /\ target_pos' = <<0, 0>>
    /\ start' = end
    /\ pc' = "p2_loop"
    /\ reads' = {}
    /\ UNCHANGED <<adjVars, hike_call>>
    /\ UNCHANGED <<heights, end, parseVars, path, path_node_pos, resultVars>>

ShortestHikePathBegin ==
    /\ pc = "main_p2"
    /\ open_list' = {DijkstraNode(end, None, 0)}
    /\ closed_map' = EmptyMap
    /\ target_pos' = <<0, 0>>
    /\ pc' = "p2_loop"
    /\ reads' = {}
    /\ UNCHANGED <<adjVars, hike_call>>
    /\ UNCHANGED <<gridVars, parseVars, path, path_node_pos, resultVars>>

ShortestHikePathIter ==
    /\ pc = "p2_loop"
    /\ \E node \in PopCandidates(open_list) :
         LET node_pos == node.position
             probes == NeighbourProbes(heights, node_pos)
         IN  /\ reads' = probes
             /\ IF \E q \in probes : ~InBounds(heights, q)
                THEN /\ pc' = "panic"
                     /\ open_list' = open_list \ {node}
                     /\ UNCHANGED <<closed_map, target_pos, path, path_node_pos>>
                ELSE /\ open_list' =
                          PushNeighbours(get_lower_neighbours(heights, node_pos),
                                         open_list \ {node}, node, closed_map)
                     /\ closed_map' = MapInsert(closed_map, node_pos, node)
                     /\ IF ElevAt(heights, node_pos) = 0
                        THEN /\ target_pos' = node_pos
                             /\ pc' = "p2_rebuild"
                             /\ path' = <<>>
                             /\ path_node_pos' = node_pos
                        ELSE /\ pc' = "p2_loop"
                             /\ UNCHANGED <<target_pos, path, path_node_pos>>
    /\ UNCHANGED <<adjVars, hike_call>>
    /\ UNCHANGED <<gridVars, parseVars, resultVars>>

ShortestHikePathExhausted ==
    /\ pc = "p2_loop"
    /\ open_list = {}
    /\ pc' = "p2_rebuild"
    /\ path' = <<>>
    /\ path_node_pos' = target_pos
    /\ reads' = {}
    /\ UNCHANGED <<adjVars, hike_call>>
    /\ UNCHANGED <<gridVars, parseVars, open_list, closed_map, target_pos, resultVars>>

ShortestHikePathRebuild ==
    /\ pc = "p2_rebuild"
    /\ IF path_node_pos \in DOMAIN closed_map
       THEN /\ reads' = {path_node_pos}
            /\ IF ~InBounds(heights, path_node_pos)
               THEN /\ pc' = "panic"
                    /\ UNCHANGED <<path, path_node_pos, p2_shortest_hike_path>>
               ELSE LET path_node == closed_map[path_node_pos]
                        pos_height == ElevAt(heights, path_node_pos)
                        grown == PathPush(path, <<path_node_pos, pos_height>>)
                    IN  /\ path' = grown
                        /\ IF path_node.parent # None
                           THEN /\ path_node_pos' = path_node.parent
                                /\ pc' = "p2_rebuild"
                                /\ UNCHANGED p2_shortest_hike_path
                           ELSE /\ p2_shortest_hike_path' = grown
                                /\ pc' = "p2_count"
                                /\ UNCHANGED path_node_pos
       ELSE /\ reads' = {}
            /\ p2_shortest_hike_path' = path
            /\ pc' = "p2_count"
            /\ UNCHANGED <<path, path_node_pos>>
    /\ UNCHANGED <<adjVars, hike_call>>
    /\ UNCHANGED <<gridVars, parseVars, open_list, closed_map, target_pos,
                   p1_shortest_path, p1_steps_count, p2_steps_count>>

P2StepsCount ==
    /\ pc = "p2_count"
    /\ \E r \in StepsOutcomes(Len(p2_shortest_hike_path)) :
         /\ p2_steps_count' = r
         /\ pc' = IF r.panic THEN "panic" ELSE "done"
    /\ reads' = {}
    /\ UNCHANGED <<adjVars, hike_call>>
    /\ UNCHANGED <<gridVars, parseVars, searchVars, p1_shortest_path,
                   p1_steps_count, p2_shortest_hike_path>>

\* ---- grids handed to HeightMap::new ----

Shapes ==
    {s \in (1..MaxRows) \X (1..MaxCols) : s[1] * s[2] <= MaxCells}

RectGrids ==
    UNION {[1..s[1] -> [1..s[2] -> 0..MaxElev]] : s \in Shapes}

Positions(h) ==
    {p \in (0..(Len(h) - 1)) \X (0..(Len(h[1]) - 1)) : InBounds(h, p)}

\* The locals of a calculate_shortest_hike_path call that has not begun.
NotCalled ==
    [pc |-> "idle", open_list |-> {}, closed_map |-> EmptyMap,
     target_pos |-> <<0, 0>>, path |-> <<>>, path_node_pos |-> <<0, 0>>]

SearchIdle ==
    /\ open_list = {}
    /\ closed_map = EmptyMap
    /\ target_pos = <<0, 0>>
    /\ path = <<>>
    /\ path_node_pos = <<0, 0>>
    /\ reads = {}
    /\ higher_neighbours = EmptyMap
    /\ lower_neighbours = EmptyMap
    /\ p1_shortest_path = <<>>
    /\ p1_steps_count = NoCount
    /\ p2_shortest_hike_path = <<>>
    /\ p2_steps_count = NoCount
    /\ hike_call = NotCalled

\* After HeightMap::new on a non-empty rectangular grid with start and end in
\* the grid; main is about to run part 1.
Init ==
    /\ input = <<>>
    /\ line_no = 0
    /\ height_rows = <<>>
    /\ heights \in RectGrids
    /\ start \in Positions(heights)
    /\ end \in Positions(heights)
    /\ pc = "main_p1"
    /\ SearchIdle

Next ==
    \/ StartEndPathBegin
    \/ StartEndPathIter
    \/ StartEndPathExhausted
    \/ StartEndPathRebuild
    \/ P1StepsCount
    \/ ShortestHikePathBegin
    \/ ShortestHikePathIter
    \/ ShortestHikePathExhausted
    \/ ShortestHikePathRebuild
    \/ P2StepsCount

Spec == Init /\ [][Next]_vars

\* ---- calculate_shortest_hike_path alone, on corridors ----

Corridors ==
    UNION {[1..1 -> [1..c -> 0..HikeMaxElev]] : c \in 1..HikeLen}

\* A call of calculate_shortest_hike_path on a corridor.  The method never reads
\* self.start, which is left at (0, 0), the value parse_input gives it when the
\* input has no 'S'.
InitHike ==
    /\ input = <<>>
    /\ line_no = 0
    /\ height_rows = <<>>
    /\ heights \in Corridors
    /\ start = <<0, 0>>
    /\ end \in Positions(heights)
    /\ pc = "main_p2"
    /\ SearchIdle

NextHike ==
    \/ ShortestHikePathBegin
    \/ ShortestHikePathIter
    \/ ShortestHikePathExhausted
    \/ ShortestHikePathRebuild
    \/ P2StepsCount

SpecHike == InitHike /\ [][NextHike]_vars

\* ---- both queries on one HeightMap, each on its own thread ----
\* calculate_start_end_path runs in the frame of the variables above;
\* calculate_shortest_hike_path runs in hike_call.  Each loop iteration and each
\* rebuild iteration is one step, and the steps of the two calls interleave.

ThreadHikeBegin ==
    /\ hike_call.pc = "idle"
    /\ hike_call' = [hike_call EXCEPT !.open_list = {DijkstraNode(end, None, 0)},
                                      !.closed_map = EmptyMap,
                                      !.target_pos = <<0, 0>>,
                                      !.pc = "loop"]
    /\ reads' = {}
    /\ UNCHANGED <<gridVars, parseVars, adjVars, searchVars, resultVars, pc>>

\* Faulty variant: the closed check of the hike call consults the closed map
\* of the forward call (a ClosedSet shared between the two).
ThreadHikeIter_sharedclosed ==
    /\ hike_call.pc = "loop"
    /\ \E node \in PopCandidates(hike_call.open_list) :
         LET node_pos == node.position
             probes == NeighbourProbes(heights, node_pos)
             rest == hike_call.open_list \ {node}
         IN  /\ reads' = probes
             /\ IF \E q \in probes : ~InBounds(heights, q)
                THEN hike_call' = [hike_call EXCEPT !.open_list = rest,
                                                    !.pc = "panic"]
                ELSE LET pushed ==
                             PushNeighbours(get_lower_neighbours(heights, node_pos),
                                            rest, node, closed_map)
                         closed == MapInsert(hike_call.closed_map, node_pos, node)
                     IN  IF ElevAt(heights, node_pos) = 0
                         THEN hike_call' = [hike_call EXCEPT !.open_list = pushed,
                                                             !.closed_map = closed,
                                                             !.target_pos = node_pos,
                                                             !.path = <<>>,
                                                             !.path_node_pos = node_pos,
                                                             !.pc = "rebuild"]
                         ELSE hike_call' = [hike_call EXCEPT !.open_list = pushed,
                                                             !.closed_map = closed]
    /\ UNCHANGED <<gridVars, parseVars, adjVars, searchVars, resultVars, pc>>

ThreadHikeIter ==
    /\ hike_call.pc = "loop"
    /\ \E node \in PopCandidates(hike_call.open_list) :
         LET node_pos == node.position
             probes == NeighbourProbes(heights, node_pos)
             rest == hike_call.open_list \ {node}
         IN  /\ reads' = probes
             /\ IF \E q \in probes : ~InBounds(heights, q)
                THEN hike_call' = [hike_call EXCEPT !.open_list = rest,
                                                    !.pc = "panic"]
                ELSE LET pushed ==
                             PushNeighbours(get_lower_neighbours(heights, node_pos),
                                            rest, node, hike_call.closed_map)
                         closed == MapInsert(hike_call.closed_map, node_pos, node)
                     IN  IF ElevAt(heights, node_pos) = 0
                         THEN hike_call' = [hike_call EXCEPT !.open_list = pushed,
                                                             !.closed_map = closed,
                                                             !.target_pos = node_pos,
                                                             !.path = <<>>,
                                                             !.path_node_pos = node_pos,
                                                             !.pc = "rebuild"]
                         ELSE hike_call' = [hike_call EXCEPT !.open_list = pushed,
                                                             !.closed_map = closed]
    /\ UNCHANGED <<gridVars, parseVars, adjVars, searchVars, resultVars, pc>>

ThreadHikeExhausted ==
    /\ hike_call.pc = "loop"
    /\ hike_call.open_list = {}
    /\ hike_call' = [hike_call EXCEPT !.path = <<>>,
                                      !.path_node_pos = hike_call.target_pos,
                                      !.pc = "rebuild"]
    /\ reads' = {}
    /\ UNCHANGED <<gridVars, parseVars, adjVars, searchVars, resultVars, pc>>

ThreadHikeRebuild ==
    /\ hike_call.pc = "rebuild"
    /\ IF hike_call.path_node_pos \in DOMAIN hike_call.closed_map
       THEN /\ reads' = {hike_call.path_node_pos}
            /\ IF ~InBounds(heights, hike_call.path_node_pos)
               THEN /\ hike_call' = [hike_call EXCEPT !.pc = "panic"]
                    /\ UNCHANGED p2_shortest_hike_path
               ELSE LET path_node == hike_call.closed_map[hike_call.path_node_pos]
                        pos_height == ElevAt(heights, hike_call.path_node_pos)
                        grown == PathPush(hike_call.path,
                                          <<hike_call.path_node_pos, pos_height>>)
                    IN  IF path_node.parent # None
                        THEN /\ hike_call' =
                                   [hike_call EXCEPT !.path = grown,
                                                     !.path_node_pos = path_node.parent]
                             /\ UNCHANGED p2_shortest_hike_path
                        ELSE /\ hike_call' = [hike_call EXCEPT !.path = grown,
                                                               !.pc = "returned"]
                             /\ p2_shortest_hike_path' = grown
       ELSE /\ reads' = {}
            /\ hike_call' = [hike_call EXCEPT !.pc = "returned"]
            /\ p2_shortest_hike_path' = hike_call.path
    /\ UNCHANGED <<gridVars, parseVars, adjVars, searchVars, p1_shortest_path,
                   p1_steps_count, p2_steps_count, pc>>

ThreadShapes ==
    {s \in (1..ThreadRows) \X (1..ThreadCols) : s[1] * s[2] <= ThreadCells}

ThreadGrids ==
    UNION {[1..s[1] -> [1..s[2] -> 0..ThreadMaxElev]] : s \in ThreadShapes}

\* One HeightMap behind a shared reference; neither call has begun.
InitThreads ==
    /\ input = <<>>
    /\ line_no = 0
    /\ height_rows = <<>>
    /\ heights \in ThreadGrids
    /\ start \in Positions(heights)
    /\ end \in Positions(heights)
    /\ pc = "main_p1"
    /\ SearchIdle

NextThreads ==
    \/ StartEndPathBegin
    \/ StartEndPathIter
    \/ StartEndPathExhausted
    \/ StartEndPathRebuild
    \/ ThreadHikeBegin
    \/ ThreadHikeIter
    \/ ThreadHikeExhausted
    \/ ThreadHikeRebuild

SpecThreads == InitThreads /\ [][NextThreads]_vars

\* ---- main on the small grids ----

SpecSmall == InitThreads /\ [][Next]_vars

\* ---- the neighbour functions alone ----

AdjShapes ==
    {s \in (1..AdjRows) \X (1..AdjCols) : s[1] * s[2] <= AdjCells}

AdjGrids ==
    UNION {[1..s[1] -> [1..s[2] -> 0..AdjMaxElev]] : s \in AdjShapes}

\* get_higher_neighbours called at every position of the grid.
HigherNeighbourCalls ==
    /\ pc = "adj_higher"
    /\ higher_neighbours' =
          [p \in Positions(heights) |-> get_higher_neighbours(heights, p)]
    /\ reads' = UNION {NeighbourProbes(heights, p) : p \in Positions(heights)}
    /\ pc' = "adj_lower"
    /\ UNCHANGED <<gridVars, parseVars, searchVars, lower_neighbours, resultVars,
                   hike_call>>

\* get_lower_neighbours called at every position of the grid.
LowerNeighbourCalls ==
    /\ pc = "adj_lower"
    /\ lower_neighbours' =
          [p \in Positions(heights) |-> get_lower_neighbours(heights, p)]
    /\ reads' = UNION {NeighbourProbes(heights, p) : p \in Positions(heights)}
    /\ pc' = "adj_done"
    /\ UNCHANGED <<gridVars, parseVars, searchVars, higher_neighbours, resultVars,
                   hike_call>>

\* A HeightMap whose neighbour function is about to be called; neither
\* function reads self.start or self.end.
InitAdj ==
    /\ input = <<>>
    /\ line_no = 0
    /\ height_rows = <<>>
    /\ heights \in AdjGrids
    /\ start = <<0, 0>>
    /\ end = <<0, 0>>
    /\ SearchIdle

InitHigher == InitAdj /\ pc = "adj_higher"

InitLower == InitAdj /\ pc = "adj_lower"

SpecHigher == InitHigher /\ [][HigherNeighbourCalls]_vars

SpecLower == InitLower /\ [][LowerNeighbourCalls]_vars

\* Both functions called in turn on one of the grids of RectGrids.
InitTranspose ==
    /\ input = <<>>
    /\ line_no = 0
    /\ height_rows = <<>>
    /\ heights \in RectGrids
    /\ start = <<0, 0>>
    /\ end = <<0, 0>>
    /\ pc = "adj_higher"
    /\ SearchIdle

NextTranspose ==
    \/ HigherNeighbourCalls
    \/ LowerNeighbourCalls

SpecTranspose == InitTranspose /\ [][NextTranspose]_vars

\* ---- parse_input ----

Alphabet == {CharS, CharE} \cup (CharA..(CharA + MaxLetter)) \cup {CharA + ElevE}

RECURSIVE SeqsUpTo(_, _)
SeqsUpTo(S, n) ==
    IF n = 0 THEN {<<>>}
    ELSE LET shorter == SeqsUpTo(S, n - 1)
         IN  shorter \cup {Append(q, x) : q \in shorter, x \in S}

RECURSIVE SumOf(_)
SumOf(q) == IF q = <<>> THEN 0 ELSE Head(q) + SumOf(Tail(q))

\* The line lengths of a text: at most MaxLines lines of at most MaxLineLen
\* characters, MaxChars characters at most in all.
LineShapes ==
    {lens \in SeqsUpTo(0..MaxLineLen, MaxLines) : SumOf(lens) <= MaxChars}

\* input_buf.lines(): the characters of the file cut into its lines.
RECURSIVE SplitLines(_, _)
SplitLines(chars, lens) ==
    IF lens = <<>> THEN <<>>
    ELSE <<SubSeq(chars, 1, Head(lens))>>
         \o SplitLines(SubSeq(chars, Head(lens) + 1, Len(chars)), Tail(lens))

\* Faulty variant of the character mapping: letters counted from 1.
CharHeight_shifted(c) ==
    IF c = CharS THEN 0
    ELSE IF c = CharE THEN ElevE
    ELSE c - CharA + 1

\* The closure of `.map(|(j, c)| match c { ... })`: the elevation of one character.
CharHeight(c) ==
    IF c = CharS THEN 0
    ELSE IF c = CharE THEN ElevE
    ELSE c - CharA

\* The last column of `line` holding character c, or -1: the closure assigns
\* (i, j) at every occurrence, in increasing j.
LastIndexOf(line, c) ==
    LET js == {j \in 1..Len(line) : line[j] = c}
    IN  IF js = {} THEN -1 ELSE (CHOOSE j \in js : \A k \in js : k <= j) - 1

\* One iteration of `for (i, line) in input_buf.lines().enumerate()`.
ParseLine ==
    /\ pc = "parse"
    /\ line_no < Len(input)
    /\ LET i == line_no
           line == input[line_no + 1]
           row == [j \in 1..Len(line) |-> CharHeight(line[j])]
           s == LastIndexOf(line, CharS)
           e == LastIndexOf(line, CharE)
       IN  /\ height_rows' = Append(height_rows, row)
           /\ start' = IF s >= 0 THEN <<i, s>> ELSE start
           /\ end' = IF e >= 0 THEN <<i, e>> ELSE end
    /\ line_no' = line_no + 1
    /\ UNCHANGED <<adjVars, hike_call>>
    /\ UNCHANGED <<input, heights, pc, searchVars, reads, resultVars>>

\* Ok(HeightMap::new(height_rows, start, end)), and main goes on to part 1.
ParseReturn ==
    /\ pc = "parse"
    /\ line_no = Len(input)
    /\ heights' = height_rows
    /\ height_rows' = <<>>
    /\ pc' = "main_p1"
    /\ UNCHANGED <<adjVars, hike_call>>
    /\ UNCHANGED <<input, line_no, start, end, searchVars, reads, resultVars>>

\* main is about to call parse_input on a file holding `input`.
InitParse ==
    /\ \E lens \in LineShapes :
          \E chars \in [1..SumOf(lens) -> Alphabet] :
             input = SplitLines(chars, lens)
    /\ line_no = 0
    /\ height_rows = <<>>
    /\ heights = <<>>
    /\ start = <<0, 0>>
    /\ end = <<0, 0>>
    /\ pc = "parse"
    /\ SearchIdle

NextParse ==
    \/ ParseLine
    \/ ParseReturn
    \/ Next

SpecParse == InitParse /\ [][NextParse]_vars

\* parse_input alone, up to its return.
NextParseInput ==
    \/ ParseLine
    \/ ParseReturn

SpecParseInput == InitParse /\ [][NextParseInput]_vars

\* ======================================================================
\* Properties
\* ======================================================================

\* The claims' own reading of the grid as a graph, independent of the
\* neighbour functions above.
Cells == Positions(heights)

Abs(x) == IF x >= 0 THEN x ELSE 0 - x

Adjacent4(u, v) == Abs(u[1] - v[1]) + Abs(u[2] - v[2]) = 1

Max0(x) == IF x >= 0 THEN x ELSE 0

AscentEdges ==
    {e \in Cells \X Cells :
        /\ Adjacent4(e[1], e[2])
        /\ ElevAt(heights, e[2]) <= ElevAt(heights, e[1]) + 1}

DescentEdges ==
    {e \in Cells \X Cells :
        /\ Adjacent4(e[1], e[2])
        /\ ElevAt(heights, e[2]) >= Max0(ElevAt(heights, e[1]) - 1)}

ZeroCells == {z \in Cells : ElevAt(heights, z) = 0}

\* Breadth-first distance from the frontier to the nearest goal, -1 if none.
RECURSIVE Bfs(_, _, _, _, _)
Bfs(edges, frontier, seen, goals, d) ==
    IF frontier \cap goals # {} THEN d
    ELSE IF frontier = {} THEN 0 - 1
    ELSE LET nxt == {v \in Cells \ seen : \E u \in frontier : <<u, v>> \in edges}
         IN  Bfs(edges, nxt, seen \cup nxt, goals, d + 1)

Distance(edges, src, goals) == Bfs(edges, {src}, {src}, goals, 0)

FwdDist == Distance(AscentEdges, start, {end})
HikeDist == Distance(DescentEdges, end, ZeroCells)

PathPositions(p) == {p[i][1] : i \in 1..Len(p)}

\* C1: when end is reachable from start by steps that climb at most one, the
\* path calculate_start_end_path returns has exactly as many edges as the
\* breadth-first distance from start to end in that graph.
C1_ForwardOptimal ==
    (pc = "p1_count" /\ FwdDist >= 0) =>
        Len(p1_shortest_path) - 1 = FwdDist

\* A part 1 path that had to go round: three or more edges.
C1_Witness ==
    /\ pc = "p1_count"
    /\ FwdDist >= 3
    /\ Len(p1_shortest_path) = FwdDist + 1

\* C2: when some elevation-0 cell is reachable from end by steps that descend
\* at most one, the path calculate_shortest_hike_path returns has exactly as
\* many edges as the least breadth-first distance from end to an elevation-0
\* cell, and the cell it found is such a nearest one.
C2_ReverseOptimal ==
    (pc = "p2_count" /\ HikeDist >= 0) =>
        /\ Len(p2_shortest_hike_path) - 1 = HikeDist
        /\ target_pos \in ZeroCells
        /\ Distance(DescentEdges, end, {target_pos}) = HikeDist
        /\ \A z \in ZeroCells :
              LET d == Distance(DescentEdges, end, {z})
              IN  d >= 0 => d >= Len(p2_shortest_hike_path) - 1

\* A hike of two or more edges, with a second elevation-0 cell farther away.
C2_Witness ==
    /\ pc = "p2_count"
    /\ HikeDist >= 2
    /\ Len(p2_shortest_hike_path) = HikeDist + 1
    /\ \E z \in ZeroCells : Distance(DescentEdges, end, {z}) > HikeDist

\* C6: in every path calculate_start_end_path returns, each element records
\* the grid's elevation at its position and each step climbs at most one:
\* elev[next] <= elev[prev] + 1.
C6_ForwardMonotone ==
    /\ \A i \in 1..Len(p1_shortest_path) :
          p1_shortest_path[i][2] = ElevAt(heights, p1_shortest_path[i][1])
    /\ \A i \in 1..(Len(p1_shortest_path) - 1) :
          p1_shortest_path[i + 1][2] <= p1_shortest_path[i][2] + 1

\* A returned part 1 path that climbs by one and also drops by two or more.
C6_Witness ==
    /\ pc = "p1_count"
    /\ \E i \in 1..(Len(p1_shortest_path) - 1) :
          p1_shortest_path[i + 1][2] = p1_shortest_path[i][2] + 1
    /\ \E i \in 1..(Len(p1_shortest_path) - 1) :
          p1_shortest_path[i + 1][2] + 2 <= p1_shortest_path[i][2]

\* C8: on a non-empty rectangular grid with start and end in it, every
\* position at which a search step indexes `heights` and every position of a
\* path (being rebuilt or returned) is inside the grid.
C8_BoundsSafe ==
    /\ \A q \in reads : InBounds(heights, q)
    /\ PathPositions(path) \subseteq Cells
    /\ PathPositions(p1_shortest_path) \subseteq Cells
    /\ PathPositions(p2_shortest_hike_path) \subseteq Cells

\* A pop at a corner of a grid with two rows and two columns: two of the four
\* directions are cut off by the edge tests, the other two are read.
C8_Witness ==
    /\ pc \in {"p1_loop", "p1_rebuild", "p2_loop", "p2_rebuild"}
    /\ Len(heights) >= 2
    /\ Len(heights[1]) >= 2
    /\ Cardinality(reads) = 3

\* The driver has just computed p1_shortest_path.len() - 1 (or panicked in it).
P1Counted == pc = "main_p2" \/ (pc = "panic" /\ p1_steps_count.panic)

\* C3: when end cannot be reached from start, part 1 ends with a "no path"
\* outcome distinct from every successful one, and neither the search nor the
\* driver's path.len() - 1 panics or underflows.
C3_NoPathNoPanic ==
    (P1Counted /\ FwdDist < 0) =>
        /\ p1_shortest_path = <<>>
        /\ ~p1_steps_count.panic
        /\ ~p1_steps_count.wrapped

\* calculate_shortest_hike_path has returned after closing an elevation-0 cell.
HikeFound ==
    /\ pc \in {"p2_count", "done"}
    /\ \E q \in DOMAIN closed_map : ElevAt(heights, q) = 0

\* C4: when the open set empties without an elevation-0 cell having been
\* closed, calculate_shortest_hike_path returns no path (in particular none
\* that starts at the default target (0, 0), whose elevation is not 0).
C4_FailureReturnsNoPath ==
    (pc = "p2_count" /\ \A q \in DOMAIN closed_map : ElevAt(heights, q) # 0) =>
        p2_shortest_hike_path = <<>>

FirstPos(p) == p[1][1]
LastPos(p) == p[Len(p)][1]

\* C5 as stated: both queries return a found path in source-to-goal order,
\* first element the search's source (start for part 1, end for part 2), last
\* element the discovered goal cell.
C5_SourceToGoal ==
    /\ (pc = "p1_count" /\ p1_shortest_path # <<>>) =>
          /\ FirstPos(p1_shortest_path) = start
          /\ LastPos(p1_shortest_path) = end
    /\ HikeFound =>
          /\ FirstPos(p2_shortest_hike_path) = end
          /\ LastPos(p2_shortest_hike_path) = target_pos

\* C5 as amended: calculate_start_end_path returns its path source first
\* (first element start, last element end); calculate_shortest_hike_path
\* returns its path the other way round, first element target_pos (the
\* discovered elevation-0 cell when one was found), last element the search's
\* source end.
C5_Orientation ==
    /\ p1_shortest_path # <<>> =>
          /\ FirstPos(p1_shortest_path) = start
          /\ LastPos(p1_shortest_path) = end
    /\ p2_shortest_hike_path # <<>> =>
          /\ FirstPos(p2_shortest_hike_path) = target_pos
          /\ LastPos(p2_shortest_hike_path) = end
    /\ HikeFound => ElevAt(heights, FirstPos(p2_shortest_hike_path)) = 0

\* Both queries have returned a path of two or more cells, the hike found.
C5_Witness ==
    /\ HikeFound
    /\ Len(p1_shortest_path) >= 2
    /\ Len(p2_shortest_hike_path) >= 2

\* C7 as stated, on the paths of searches that found an elevation-0 cell (so
\* that nothing rests on the path a failed search returns, C4): each
\* consecutive pair in returned order has elev[next] >= max(0, elev[prev] - 1).
C7_ReverseMonotone ==
    HikeFound =>
        \A i \in 1..(Len(p2_shortest_hike_path) - 1) :
            p2_shortest_hike_path[i + 1][2] >= Max0(p2_shortest_hike_path[i][2] - 1)

\* C7 as amended: in every path calculate_shortest_hike_path returns, each
\* consecutive pair in returned order has elev[prev] >= max(0, elev[next] - 1):
\* the descent-limited step leads from next to prev, the path being returned
\* goal first (equivalently elev[next] <= elev[prev] + 1).
C7_HikeMonotone ==
    \A i \in 1..(Len(p2_shortest_hike_path) - 1) :
        p2_shortest_hike_path[i][2] >= Max0(p2_shortest_hike_path[i + 1][2] - 1)

\* A found hike that, in returned order, drops by two or more at some step.
C7_Witness ==
    /\ HikeFound
    /\ \E i \in 1..(Len(p2_shortest_hike_path) - 1) :
          p2_shortest_hike_path[i + 1][2] + 2 <= p2_shortest_hike_path[i][2]

\* parse_input has returned its HeightMap.
Constructed == pc # "parse"

WellShaped(h) ==
    /\ Len(h) >= 1
    /\ \A r \in 1..Len(h) : Len(h[r]) = Len(h[1])

\* C9: no HeightMap is constructed from an empty row list or from rows of
\* unequal length: every grid a search can run on is non-empty and rectangular.
C9_RejectsBadShapes == Constructed => WellShaped(heights)

\* C10: every constructed grid has start and end inside it, and neither
\* changes once the grid is constructed.
C10_StartEndValid ==
    /\ [](Constructed => (InBounds(heights, start) /\ InBounds(heights, end)))
    /\ [][Constructed => (start' = start /\ end' = end)]_vars

SeqToSet(q) == {q[i] : i \in 1..Len(q)}

\* The four positions one step away from p, inside the grid or not.
Around(p) ==
    {<<p[1] - 1, p[2]>>, <<p[1] + 1, p[2]>>, <<p[1], p[2] - 1>>, <<p[1], p[2] + 1>>}

InGrid(p) ==
    {v \in Around(p) : /\ 0 <= v[1] /\ v[1] < Len(heights)
                       /\ 0 <= v[2] /\ v[2] < Len(heights[1])}

\* The sets AscentEdges and DescentEdges, read at one source cell.
AscentNeighbours(p) ==
    {v \in InGrid(p) : ElevAt(heights, v) <= ElevAt(heights, p) + 1}
DescentNeighbours(p) ==
    {v \in InGrid(p) : ElevAt(heights, v) >= Max0(ElevAt(heights, p) - 1)}

\* C14: at every position p of the grid, get_higher_neighbours(p) returns
\* exactly the north/south/west/east neighbours n inside the grid with
\* elev(n) <= elev(p) + 1: none missing, none extra, none twice, at most four.
C14_HigherExact ==
    pc = "adj_lower" =>
        \A p \in Cells :
            LET r == higher_neighbours[p]
            IN  /\ SeqToSet(r) = AscentNeighbours(p)
                /\ Len(r) = Cardinality(SeqToSet(r))
                /\ Len(r) <= 4

\* One grid in which a cell gets all four neighbours and another cell, not
\* alone in the grid, gets none.
C14_Witness ==
    /\ pc = "adj_lower"
    /\ \E p \in Cells : Len(higher_neighbours[p]) = 4
    /\ \E p \in Cells : Len(higher_neighbours[p]) = 0

\* C15: at every position p of the grid, get_lower_neighbours(p) returns
\* exactly the north/south/west/east neighbours n inside the grid with
\* elev(n) >= max(0, elev(p) - 1); at an elevation-0 cell that is every
\* neighbour inside the grid.
C15_LowerExact ==
    pc = "adj_done" =>
        \A p \in Cells :
            LET r == lower_neighbours[p]
            IN  /\ SeqToSet(r) = DescentNeighbours(p)
                /\ Len(r) = Cardinality(SeqToSet(r))
                /\ ElevAt(heights, p) = 0 => SeqToSet(r) = InGrid(p)

\* An elevation-0 cell that gets all four neighbours, one of them two higher,
\* and a cell that loses a neighbour two lower.
C15_Witness ==
    /\ pc = "adj_done"
    /\ \E p \in Cells :
          /\ ElevAt(heights, p) = 0
          /\ Len(lower_neighbours[p]) = 4
          /\ \E i \in 1..4 : ElevAt(heights, lower_neighbours[p][i]) >= 2
    /\ \E p \in Cells : \E v \in Cells :
          /\ Adjacent4(p, v)
          /\ ElevAt(heights, v) + 2 <= ElevAt(heights, p)
          /\ v \notin SeqToSet(lower_neighbours[p])

\* The lengths the two searches return, as functions of the grid alone.
ForwardLen == IF FwdDist >= 0 THEN FwdDist + 1 ELSE 0

OriginDist == Distance(DescentEdges, end, {<<0, 0>>})

HikeLenOf ==
    IF HikeDist >= 0 THEN HikeDist + 1
    ELSE IF OriginDist >= 0 THEN OriginDist + 1 ELSE 0

\* C11: whichever of several least-f open nodes the heap pops, each search
\* returns the same outcome kind and the same path length for the same grid,
\* start and end: the length returned is a function of the grid, and so is
\* whether the search found its goal.
C11_TieBreakIndependent ==
    /\ pc \in {"p1_count", "main_p2"} =>
          /\ Len(p1_shortest_path) = ForwardLen
          /\ (end \in DOMAIN closed_map) <=> (FwdDist >= 0)
    /\ pc \in {"p2_count", "done"} =>
          /\ Len(p2_shortest_hike_path) = HikeLenOf
          /\ HikeFound <=> (HikeDist >= 0)

\* Both searches have returned on a grid where the heap had a choice: the
\* part 1 path has a middle cell, and another cell could have taken its place.
C11_Witness ==
    /\ pc = "done"
    /\ Len(p1_shortest_path) = 3
    /\ \E v \in Cells \ PathPositions(p1_shortest_path) :
          /\ <<start, v>> \in AscentEdges
          /\ <<v, end>> \in AscentEdges
    /\ Len(p2_shortest_hike_path) >= 2

InLoop == pc \in {"p1_loop", "p2_loop"}

Closed == DOMAIN closed_map

\* The goal test of the running search holds of a cell closed by this step.
GoalClosed ==
    \E q \in DOMAIN closed_map' :
        IF pc = "p1_loop" THEN q = end ELSE ElevAt(heights, q) = 0

\* C12: each pass of either search loop closes one more cell and the closed
\* cells never outnumber the height*width cells of the grid, so a loop makes
\* at most height*width passes; it is left only for the path rebuild, and
\* only when the open list is empty or the goal test succeeded.
C12_TerminationBound ==
    [][InLoop =>
          /\ Cardinality(DOMAIN closed_map') <= Cardinality(Cells)
          /\ pc' = pc =>
                Cardinality(DOMAIN closed_map') = Cardinality(Closed) + 1
          /\ pc' # pc =>
                /\ pc' = (IF pc = "p1_loop" THEN "p1_rebuild" ELSE "p2_rebuild")
                /\ open_list = {} \/ GoalClosed]_vars

\* The reverse search has closed every cell of a four-cell grid and left its
\* loop with the open list empty.
C12_Witness ==
    /\ pc = "p2_rebuild"
    /\ open_list = {}
    /\ Closed = Cells
    /\ Cardinality(Cells) >= 4
    /\ ZeroCells = {}

\* C13: no position is closed twice.  The code has no test that discards a
\* popped node whose position is closed; none is needed, because no open node
\* ever stands on a closed position: each pop closes a position that was not
\* closed, and leaves the parent and cost of every closed entry as they were.
C13_ClosedOnce ==
    /\ [](\A o \in open_list : InLoop => o.position \notin Closed)
    /\ [][(InLoop /\ open_list # {}) =>
             /\ Closed \subseteq DOMAIN closed_map'
             /\ \A q \in Closed : closed_map'[q] = closed_map[q]
             /\ \E o \in open_list :
                   /\ o.position \notin Closed
                   /\ DOMAIN closed_map' = Closed \cup {o.position}
                   /\ closed_map'[o.position] = o]_vars

\* A closed cell whose expansion met its own closed parent among its
\* neighbours, with the search still running.
C13_Witness ==
    /\ pc = "p1_loop"
    /\ open_list # {}
    /\ \E q \in Closed :
          /\ closed_map[q].parent # None
          /\ <<q, closed_map[q].parent>> \in AscentEdges

Reported(f) == [panic |-> FALSE, wrapped |-> FALSE, n |-> f]

\* C16: after a successful search the returned path has one element more than
\* the cost f stored in the closed-map node of the goal cell it discovered
\* (end for part 1, target_pos for part 2), and main reports exactly that f
\* as the step count.
C16_StepCount ==
    /\ (pc = "main_p2" /\ end \in Closed) =>
          /\ Len(p1_shortest_path) - 1 = closed_map[end].f
          /\ p1_steps_count = Reported(closed_map[end].f)
    /\ (pc = "done" /\ HikeFound) =>
          /\ ElevAt(heights, target_pos) = 0
          /\ Len(p2_shortest_hike_path) - 1 = closed_map[target_pos].f
          /\ p2_steps_count = Reported(closed_map[target_pos].f)

\* Both searches succeeded and main reported two steps or more for each.
C16_Witness ==
    /\ pc = "done"
    /\ HikeFound
    /\ p1_steps_count.n >= 2
    /\ p2_steps_count.n >= 2

\* C17: when start has elevation 0 and end can be reached from start by steps
\* that climb at most one, the reverse search finds an elevation-0 cell and
\* the path it returns has no more elements than the part 1 path.
C17_ReverseNotLonger ==
    (pc \in {"p2_count", "done"} /\ ElevAt(heights, start) = 0 /\ FwdDist >= 0) =>
        /\ HikeFound
        /\ Len(p2_shortest_hike_path) >= 1
        /\ Len(p2_shortest_hike_path) <= Len(p1_shortest_path)

\* The hike is strictly shorter than the part 1 path: it ends at an
\* elevation-0 cell nearer to end than start is.
C17_Witness ==
    /\ pc = "done"
    /\ ElevAt(heights, start) = 0
    /\ FwdDist >= 0
    /\ Len(p2_shortest_hike_path) >= 2
    /\ Len(p2_shortest_hike_path) < Len(p1_shortest_path)
    /\ target_pos # start

\* C18: no step of main after construction (the two searches with their
\* neighbour calls, the two path rebuilds, the two step counts) changes the
\* grid's elevations, its dimensions, start or end.
C18_GridImmutable ==
    [][/\ heights' = heights
       /\ Len(heights') = Len(heights)
       /\ start' = start
       /\ end' = end]_vars

\* Both queries have run to their end on a grid where each had to search.
C18_Witness ==
    /\ pc = "done"
    /\ start # end
    /\ Len(p1_shortest_path) >= 2
    /\ Len(p2_shortest_hike_path) >= 2
    /\ Cardinality(Closed) >= 2

\* The elevation the puzzle text gives a character: 'S' 0, 'E' 25, and the
\* letters 'a' .. 'z' 0 .. 25 in order.
LetterElev(c) ==
    IF c = 83 THEN 0
    ELSE IF c = 69 THEN 25
    ELSE CHOOSE k \in 0..25 : c = 97 + k

\* The positions (row, column from 0) of character c in the text, and the
\* last of them in reading order.
MarksOf(c) ==
    {p \in UNION {{<<i - 1, j - 1>> : j \in 1..Len(input[i])} : i \in 1..Len(input)} :
        input[p[1] + 1][p[2] + 1] = c}

LastMark(S) ==
    CHOOSE p \in S : \A q \in S : q[1] < p[1] \/ (q[1] = p[1] /\ q[2] <= p[2])

\* C19: the grid parse_input builds has one row per line and one cell per
\* character; the cell of a letter 'a' .. 'z' holds 0 .. 25, the cell of 'S'
\* holds 0 and start is its position, the cell of 'E' holds 25 and end is its
\* position (the last one read, should a marker occur twice); every
\* elevation is in 0 .. 25.
C19_InputMapping ==
    pc = "main_p1" =>
        /\ Len(heights) = Len(input)
        /\ \A i \in 1..Len(input) :
              /\ Len(heights[i]) = Len(input[i])
              /\ \A j \in 1..Len(input[i]) :
                    /\ heights[i][j] = LetterElev(input[i][j])
                    /\ heights[i][j] \in 0..25
        /\ MarksOf(83) # {} =>
              /\ start = LastMark(MarksOf(83))
              /\ heights[start[1] + 1][start[2] + 1] = 0
        /\ MarksOf(69) # {} =>
              /\ end = LastMark(MarksOf(69))
              /\ heights[end[1] + 1][end[2] + 1] = 25

\* A parsed text with both markers on its second line, below two letters
\* one of which is 'z'.
C19_Witness ==
    /\ pc = "main_p1"
    /\ Len(input) = 2
    /\ start[1] = 1
    /\ end = <<1, 1>>
    /\ \E j \in 1..Len(input[1]) : input[1][j] = 122 /\ heights[1][j] = 25
    /\ \E j \in 1..Len(input[1]) : heights[1][j] = 1

\* The result of a search whose source is its goal: the source alone.
SourceOnly(p, src) == Len(p) = 1 /\ p[1][1] = src

GoalIsSourceForward ==
    /\ (pc \in {"p1_count", "main_p2"} /\ start = end) =>
          /\ Closed = {start}
          /\ SourceOnly(p1_shortest_path, start)
    /\ (pc = "main_p2" /\ start = end) => p1_steps_count = Reported(0)

GoalIsSourceReverse ==
    /\ (pc \in {"p2_count", "done"} /\ ElevAt(heights, end) = 0) =>
          /\ Closed = {end}
          /\ SourceOnly(p2_shortest_hike_path, end)
    /\ (pc = "done" /\ ElevAt(heights, end) = 0) => p2_steps_count = Reported(0)

UnreachableDiffers ==
    /\ (pc \in {"p1_count", "main_p2"} /\ FwdDist < 0) =>
          ~SourceOnly(p1_shortest_path, start)
    /\ (pc \in {"p2_count", "done"} /\ HikeDist < 0) =>
          ~SourceOnly(p2_shortest_hike_path, end)

\* C20: when the source of a search satisfies its goal test (start = end for
\* part 1, elevation 0 at end for part 2) the loop closes the source alone and
\* the search returns the one-element path of the source, reported as 0 steps;
\* no search whose goal is unreachable returns such a path.
C20_GoalIsSource ==
    /\ GoalIsSourceForward
    /\ GoalIsSourceReverse
    /\ UnreachableDiffers

\* Which search the locals open_list and closed_map belong to, and its source.
InForward == pc \in {"p1_loop", "p1_rebuild", "p1_count", "main_p2"}

InReverse == pc \in {"p2_loop", "p2_rebuild", "p2_count", "done"}

Source == IF InForward THEN start ELSE end

\* Every node the search holds, open or closed.
Nodes == open_list \cup {closed_map[q] : q \in Closed}

\* C21: each search starts with the open list holding the single node
\* {source, parent None, cost 0} and an empty closed map, and in every state
\* of a search a node, open or closed, has parent None exactly when its
\* position is the source.
C21_SingleRoot ==
    /\ []((InForward \/ InReverse) =>
             \A n \in Nodes : (n.parent = None) <=> (n.position = Source))
    /\ [][(pc \in {"main_p1", "main_p2"} /\ pc' \in {"p1_loop", "p2_loop"}) =>
             /\ closed_map' = EmptyMap
             /\ open_list' =
                   {[position |-> IF pc' = "p1_loop" THEN start ELSE end,
                     parent |-> None, f |-> 0]}]_vars

\* The reverse search under way, away from start, with closed and open nodes
\* beyond the root.
C21_Witness ==
    /\ pc = "p2_loop"
    /\ start # end
    /\ Cardinality(Closed) >= 2
    /\ open_list # {}
    /\ \E n \in open_list : n.parent # end

\* The edges of the running search.
ActiveEdges == IF InForward THEN AscentEdges ELSE DescentEdges

\* C22: in every state of a search, the cost closed_map holds for a position
\* is the breadth-first distance from the search's source to that position
\* along the edges of that search, for every closed position.
C22_ClosedCostMinimal ==
    []((InForward \/ InReverse) =>
          \A q \in Closed :
              closed_map[q].f = Distance(ActiveEdges, Source, {q}))

\* The forward search has left its loop with three cells or more closed, one
\* of them two steps or more from start and not the goal.
C22_Witness ==
    /\ pc = "p1_rebuild"
    /\ Cardinality(Closed) >= 3
    /\ \E q \in Closed \ {end} : closed_map[q].f >= 2

\* The number of parent links from node n back to a node without parent,
\* following closed_map; -1 when a link leaves closed_map or more than fuel
\* links are followed.
RECURSIVE Links(_, _)
Links(n, fuel) ==
    IF n.parent = None THEN 0
    ELSE IF fuel = 0 \/ n.parent \notin Closed THEN -1
    ELSE LET rest == Links(closed_map[n.parent], fuel - 1)
         IN  IF rest < 0 THEN -1 ELSE rest + 1

\* C24: the cost f of every open or closed node is a whole number >= 0, equal
\* to the number of parent links from the node back to the source, and at
\* most height*width - 1; f64 holds such a value exactly.
C24_CostExact ==
    []((InForward \/ InReverse) =>
          \A n \in Nodes :
              /\ n.f \in Nat
              /\ n.f = Links(n, Cardinality(Cells))
              /\ n.f <= Cardinality(Cells) - 1)

\* A node closed by the reverse search whose cost is the largest a four-cell
\* grid allows.
C24_Witness ==
    /\ InReverse
    /\ Cardinality(Cells) >= 4
    /\ \E q \in Closed : closed_map[q].f = Cardinality(Cells) - 1

OpenPositions == {o.position : o \in open_list}

\* C26: in every state of a search loop the open list holds at most one node
\* per position and none on a closed position, and a pass of the loop pushes
\* nodes only on positions that were never open or closed before (a position
\* leaves the open list only by being closed), so each position is pushed at
\* most once in a run.
C26_NoDuplicates ==
    /\ [](InLoop =>
             /\ \A a, b \in open_list : a.position = b.position => a = b
             /\ OpenPositions \cap Closed = {})
    /\ [][(InLoop /\ open_list # {}) =>
             \A n \in open_list' \ open_list :
                 n.position \notin OpenPositions \cup Closed]_vars

\* An open node has a closed neighbour, other than its parent, with an edge
\* to it: the neighbour loop of that cell met a position already open and
\* pushed nothing for it.
C26_Witness ==
    /\ InLoop
    /\ \E o \in open_list : \E q \in Closed :
          /\ q # o.parent
          /\ <<q, o.position>> \in ActiveEdges

\* C27: the node a pass of the loop pops costs no less than any node popped
\* before it, and once a node of cost c is popped and its neighbours pushed,
\* every open node costs c or c + 1.
C27_MonotonePops ==
    [][(InLoop /\ open_list # {}) =>
          \A q \in (DOMAIN closed_map') \ Closed :
              LET c == closed_map'[q].f
              IN  /\ \A p \in Closed : closed_map[p].f <= c
                  /\ \A o \in open_list' : o.f = c \/ o.f = c + 1]_vars

\* Nodes of both costs are open at once, after two pops or more.
C27_Witness ==
    /\ InLoop
    /\ Cardinality(Closed) >= 2
    /\ \E a, b \in open_list : b.f = a.f + 1

\* C28: in every state of a search each open or closed node off the source
\* has a closed parent, costs one more than its parent, and is reached from
\* its parent by an edge of the search, so following parents ends at the
\* source without a cycle; and the rebuild loop started at a closed cell g
\* returns closed_map[g].f + 1 elements, the source at the far end.
C28_ParentChain ==
    /\ []((InForward \/ InReverse) =>
             \A n \in Nodes :
                 n.position # Source =>
                     /\ n.parent \in Closed
                     /\ n.f = closed_map[n.parent].f + 1
                     /\ <<n.parent, n.position>> \in ActiveEdges
                     /\ Links(n, Cardinality(Cells)) >= 1)
    /\ []((pc = "p1_count" /\ end \in Closed) =>
             /\ Len(p1_shortest_path) = closed_map[end].f + 1
             /\ FirstPos(p1_shortest_path) = start
             /\ LastPos(p1_shortest_path) = end)
    /\ []((pc = "p2_count" /\ target_pos \in Closed) =>
             /\ Len(p2_shortest_hike_path) = closed_map[target_pos].f + 1
             /\ FirstPos(p2_shortest_hike_path) = target_pos
             /\ LastPos(p2_shortest_hike_path) = end)

\* The hike path has been rebuilt over three parent links.
C28_Witness ==
    /\ pc = "p2_count"
    /\ Len(p2_shortest_hike_path) >= 4
    /\ closed_map[target_pos].f >= 3

\* Consecutive positions one step apart in one coordinate, none twice.
SimpleWalk(p) ==
    /\ \A i \in 1..(Len(p) - 1) :
          Abs(p[i][1][1] - p[i + 1][1][1]) + Abs(p[i][1][2] - p[i + 1][1][2]) = 1
    /\ \A i, j \in 1..Len(p) : p[i][1] = p[j][1] => i = j

\* C30: in every path either query returns, consecutive positions are at
\* Manhattan distance 1 and no position occurs twice.
C30_SimpleWalk ==
    /\ SimpleWalk(p1_shortest_path)
    /\ SimpleWalk(p2_shortest_hike_path)

\* Both queries returned a path that turns a corner of a two-row grid.
C30_Witness ==
    /\ pc = "done"
    /\ Len(p1_shortest_path) >= 3
    /\ Len(p2_shortest_hike_path) >= 3
    /\ FirstPos(p1_shortest_path)[1] # LastPos(p1_shortest_path)[1]
    /\ FirstPos(p2_shortest_hike_path)[1] # LastPos(p2_shortest_hike_path)[1]

\* C29: on every grid, for all cells u and v, get_lower_neighbours(u) holds v
\* exactly when get_higher_neighbours(v) holds u: the edges of the reverse
\* search are the edges of the forward search turned round.
C29_Transpose ==
    pc = "adj_done" =>
        \A u, v \in Cells :
            (v \in SeqToSet(lower_neighbours[u])) <=>
                (u \in SeqToSet(higher_neighbours[v]))

\* A one-way edge out of an elevation-0 cell's neighbour: v, two or more above
\* u at elevation 0, is a lower neighbour of u but u is none of v.
C29_Witness ==
    /\ pc = "adj_done"
    /\ \E u, v \in Cells :
          /\ ElevAt(heights, u) = 0
          /\ ElevAt(heights, v) >= 2
          /\ v \in SeqToSet(lower_neighbours[u])
          /\ u \notin SeqToSet(lower_neighbours[v])
          /\ u \in SeqToSet(higher_neighbours[v])

\* ---- two queries at once ----

ForwardFrame == <<open_list, closed_map, path, path_node_pos, p1_shortest_path, pc>>

ThreadHikeFound == \E z \in ZeroCells : z \in DOMAIN hike_call.closed_map

\* C25: with the loop steps of a forward and a reverse search on one grid
\* interleaved in any order, each search returns what it returns alone (the
\* path length and outcome kind that are functions of the grid, over closed
\* costs that are the distances from its own source), and no step of one
\* search changes the open set, closed map or path of the other.
C25_InvocationIndependence ==
    /\ [](pc = "p1_count" =>
            /\ Len(p1_shortest_path) = ForwardLen
            /\ (end \in DOMAIN closed_map) <=> (FwdDist >= 0))
    /\ [](hike_call.pc = "returned" =>
            /\ Len(p2_shortest_hike_path) = HikeLenOf
            /\ ThreadHikeFound <=> (HikeDist >= 0))
    /\ [](/\ \A q \in DOMAIN closed_map :
                closed_map[q].f = Distance(AscentEdges, start, {q})
          /\ \A q \in DOMAIN hike_call.closed_map :
                hike_call.closed_map[q].f = Distance(DescentEdges, end, {q}))
    /\ [][hike_call' = hike_call \/ ForwardFrame' = ForwardFrame]_vars

\* Both searches are in their loops with nodes open, one cell closed by both
\* and one closed by the forward search only.
C25_Witness ==
    /\ pc = "p1_loop"
    /\ hike_call.pc = "loop"
    /\ \E q \in DOMAIN closed_map : q \in DOMAIN hike_call.closed_map
    /\ \E q \in DOMAIN closed_map : q \notin DOMAIN hike_call.closed_map
    /\ open_list # {}
    /\ hike_call.open_list # {}

\* ---- the search with lazy deletion ----
\* The reference engine: every neighbour is pushed, a best-cost map records the
\* least cost pushed for a position, and a popped entry is dropped when its
\* position is closed or its cost is above the best cost.

Far == Cardinality(Cells) + 1

LazyInit(src) ==
    [open |-> {[position |-> src, parent |-> None, f |-> 0]},
     best |-> [q \in Cells |-> IF q = src THEN 0 ELSE Far],
     closed |-> EmptyMap,
     target_pos |-> <<0, 0>>,
     stopped |-> FALSE]

LazyPop(s, n, edges, goals) ==
    IF n.position \in DOMAIN s.closed \/ n.f > s.best[n.position]
    THEN [s EXCEPT !.open = s.open \ {n}]
    ELSE LET out == {v \in Cells : <<n.position, v>> \in edges}
             pushed == {[position |-> v, parent |-> n.position, f |-> n.f + 1] :
                            v \in out}
         IN  [open |-> (s.open \ {n}) \cup pushed,
              best |-> [q \in Cells |->
                          IF q \in out /\ n.f + 1 < s.best[q]
                          THEN n.f + 1 ELSE s.best[q]],
              closed |-> [q \in (DOMAIN s.closed) \cup {n.position} |->
                            IF q = n.position THEN n ELSE s.closed[q]],
              target_pos |-> IF n.position \in goals THEN n.position
                             ELSE s.target_pos,
              stopped |-> n.position \in goals]

LazySucc(s, edges, goals) ==
    IF s.stopped THEN {}
    ELSE {LazyPop(s, n, edges, goals) :
              n \in {m \in s.open : \A o \in s.open : m.f <= o.f}}

CostsOf(m) == {<<q, m[q].f>> : q \in DOMAIN m}

\* The states the lazy search reaches while its closed costs lie within `within`.
RECURSIVE LazyReach(_, _, _, _, _)
LazyReach(frontier, seen, edges, goals, within) ==
    IF frontier = {} THEN seen
    ELSE LET nxt == {s \in UNION {LazySucc(t, edges, goals) : t \in frontier} :
                        CostsOf(s.closed) \subseteq within} \ seen
         IN  LazyReach(nxt, seen \cup nxt, edges, goals, within)

LazyStates(src, edges, goals) ==
    LazyReach({LazyInit(src)}, {LazyInit(src)}, edges, goals, Cells \X (0..Far))

\* Whether the lazy search can be at a pop with exactly the closed costs of m.
LazyCanClose(src, edges, goals, m) ==
    \E s \in LazyReach({LazyInit(src)}, {LazyInit(src)}, edges, goals, CostsOf(m)) :
        CostsOf(s.closed) = CostsOf(m)

LazyReturned(S) == {s \in S : s.stopped \/ s.open = {}}

\* Number of elements the rebuild loop collects from position q of map m.
RECURSIVE ChainLen(_, _, _)
ChainLen(m, q, fuel) ==
    IF q \notin DOMAIN m \/ fuel = 0 THEN 0
    ELSE IF m[q].parent = None THEN 1
    ELSE 1 + ChainLen(m, m[q].parent, fuel - 1)

ForwardLazy == LazyStates(start, AscentEdges, {end})

ReverseLazy == LazyStates(end, DescentEdges, ZeroCells)

\* The loop of the program's search, run from the state s = [open, closed,
\* stopped] to every state it can be in at a pop.
PrunedSucc(s, forward) ==
    IF s.stopped THEN {}
    ELSE {[open |-> PushNeighbours(IF forward
                                   THEN get_higher_neighbours(heights, n.position)
                                   ELSE get_lower_neighbours(heights, n.position),
                                   s.open \ {n}, n, s.closed),
           closed |-> MapInsert(s.closed, n.position, n),
           stopped |-> IF forward THEN n.position = end
                       ELSE ElevAt(heights, n.position) = 0] :
              n \in PopCandidates(s.open)}

RECURSIVE PrunedReach(_, _, _)
PrunedReach(frontier, seen, forward) ==
    IF frontier = {} THEN seen
    ELSE LET nxt == UNION {PrunedSucc(s, forward) : s \in frontier} \ seen
         IN  PrunedReach(nxt, seen \cup nxt, forward)

PrunedStates(forward) ==
    LET first == [open |-> open_list, closed |-> closed_map, stopped |-> FALSE]
    IN  PrunedReach({first}, {first}, forward)

\* The loop of a search is about to pop, or has just left through its break.
AtForwardPop == pc = "p1_loop" \/ (pc = "p1_rebuild" /\ path = <<>>)

AtReversePop == pc = "p2_loop" \/ (pc = "p2_rebuild" /\ path = <<>>)

\* C23: the search that prunes by scanning the open list and the search with
\* lazy deletion are observably the same.  Whenever the pruning search is at a
\* pop, the lazy search can be at a pop with the same closed positions at the
\* same costs; and when the pruning search has returned, every run of the
\* lazy search returns the same outcome kind and a path of the same length;
\* and from the first pop on, the pruning search can be at a pop with each
\* closed-cost map the lazy search can be at a pop with.
C23_PruningEquivalence ==
    /\ []((pc = "p1_loop" /\ Closed = {}) =>
            \A s \in ForwardLazy : \E t \in PrunedStates(TRUE) :
                CostsOf(t.closed) = CostsOf(s.closed))
    /\ []((pc = "p2_loop" /\ Closed = {}) =>
            \A s \in ReverseLazy : \E t \in PrunedStates(FALSE) :
                CostsOf(t.closed) = CostsOf(s.closed))
    /\ [](AtForwardPop => LazyCanClose(start, AscentEdges, {end}, closed_map))
    /\ [](AtReversePop => LazyCanClose(end, DescentEdges, ZeroCells, closed_map))
    /\ [](pc \in {"p1_count", "main_p2"} =>
            \A s \in LazyReturned(ForwardLazy) :
                /\ s.stopped <=> (end \in DOMAIN closed_map)
                /\ ChainLen(s.closed, end, Far) = Len(p1_shortest_path))
    /\ [](pc \in {"p2_count", "done"} =>
            \A s \in LazyReturned(ReverseLazy) :
                /\ s.stopped <=> HikeFound
                /\ ChainLen(s.closed, s.target_pos, Far) =
                       Len(p2_shortest_hike_path))

\* The pruning search skipped a push that the lazy search makes: a neighbour
\* of the node just closed is open at the same cost through another parent.
C23_Witness ==
    /\ pc \in {"p1_loop", "p2_loop"}
    /\ \E n \in open_list : \E q \in Closed :
          /\ <<q, n.position>> \in ActiveEdges
          /\ n.parent # q
          /\ closed_map[q].f + 1 = n.f

====
